---- MODULE Spec2Model ----
(***************************************************************************)
(* Bias metrics of the dashboard: the group aggregator, the rate-based     *)
(* differential metrics, the severity aggregator (final_bias_verdict) and  *)
(* the unsupervised verdict, as computed by src/src/bias_metrics.py on     *)
(* IEEE-754 binary64 numbers.                                              *)
(***************************************************************************)
EXTENDS Integers, Sequences, FiniteSets

(***************************************************************************)
(* Unsigned 64-bit integers as four 16-bit limbs, least significant first. *)
(* They carry the 53-bit significands of binary64 and the exact            *)
(* intermediate results of one operation before it is rounded.             *)
(***************************************************************************)
Limb == 2^16

BZero == <<0, 0, 0, 0>>

BOfInt(n) == <<n % Limb, (n \div Limb) % Limb, 0, 0>>

BIsZero(x) == x = BZero

BOdd(x) == x[1] % 2 = 1

\* floor(x / 2)
BHalf(x) ==
    <<(x[1] \div 2) + (x[2] % 2) * (Limb \div 2),
      (x[2] \div 2) + (x[3] % 2) * (Limb \div 2),
      (x[3] \div 2) + (x[4] % 2) * (Limb \div 2),
      x[4] \div 2>>

BLess(x, y) ==
    IF x[4] # y[4] THEN x[4] < y[4]
    ELSE IF x[3] # y[3] THEN x[3] < y[3]
    ELSE IF x[2] # y[2] THEN x[2] < y[2]
    ELSE x[1] < y[1]

\* x - y, for x >= y
BSub(x, y) ==
    LET d0 == x[1] - y[1]
        b0 == IF d0 < 0 THEN 1 ELSE 0
        d1 == x[2] - y[2] - b0
        b1 == IF d1 < 0 THEN 1 ELSE 0
        d2 == x[3] - y[3] - b1
        b2 == IF d2 < 0 THEN 1 ELSE 0
        d3 == x[4] - y[4] - b2
    IN  <<d0 % Limb, d1 % Limb, d2 % Limb, d3 % Limb>>

\* x + c, for a small c
BAddInt(x, c) ==
    LET a0 == x[1] + c
        a1 == x[2] + (a0 \div Limb)
        a2 == x[3] + (a1 \div Limb)
        a3 == x[4] + (a2 \div Limb)
    IN  <<a0 % Limb, a1 % Limb, a2 % Limb, a3 % Limb>>

\* x * c, for 0 <= c <= 2^15
BMulInt(x, c) ==
    LET p0 == x[1] * c
        p1 == x[2] * c + (p0 \div Limb)
        p2 == x[3] * c + (p1 \div Limb)
        p3 == x[4] * c + (p2 \div Limb)
    IN  <<p0 % Limb, p1 % Limb, p2 % Limb, p3 % Limb>>

\* the value of x, for x < 2^31
BToInt(x) == x[1] + x[2] * Limb

\* x >= 2^(48 + b)
BAtLeastPow(x, b) == x[4] >= 2^b

\* x * 2^(16 j)
BShlLimbs(x, j) ==
    LET G(i) == IF i - j >= 1 THEN x[i - j] ELSE 0
    IN  <<G(1), G(2), G(3), G(4)>>

\* x * 2^n, for a product below 2^64
BShl(x, n) == BMulInt(BShlLimbs(x, n \div 16), 2^(n % 16))

\* floor(x / 2^(16 j))
BShrLimbs(x, j) ==
    LET G(i) == IF i + j <= 4 THEN x[i + j] ELSE 0
    IN  <<G(1), G(2), G(3), G(4)>>

\* floor(x / 2^r), for r < 16
BShrBits(x, r) ==
    LET p == 2^r
        c == Limb \div p
    IN  <<(x[1] \div p) + (x[2] % p) * c, (x[2] \div p) + (x[3] % p) * c,
          (x[3] \div p) + (x[4] % p) * c, x[4] \div p>>

\* <<floor(x / 2^n), lost>>: lost tells whether a non-zero bit was shifted out
BShrSticky(x, n, lost) ==
    IF n >= 64 THEN <<BZero, lost \/ ~BIsZero(x)>>
    ELSE LET j == n \div 16
             r == n % 16
             y == BShrLimbs(x, j)
         IN  <<BShrBits(y, r),
               lost \/ (\E i \in 1..j : x[i] # 0) \/ y[1] % (2^r) # 0>>

\* the number of bits of a limb v > 0
LimbBits(v) == CHOOSE b \in 1..16 : 2^(b - 1) <= v /\ v < 2^b

\* the number of bits of x > 0
BitLen(x) ==
    IF x[4] # 0 THEN 48 + LimbBits(x[4])
    ELSE IF x[3] # 0 THEN 32 + LimbBits(x[3])
    ELSE IF x[2] # 0 THEN 16 + LimbBits(x[2])
    ELSE LimbBits(x[1])

(***************************************************************************)
(* binary64.  A finite number is (-1)^neg * m * 2^e with 2^52 <= m < 2^53, *)
(* or zero (m = 0, e = 0); nan marks not-a-number.  Every operation        *)
(* computes the exact result and rounds it once, to nearest, ties to even, *)
(* as the hardware does.  The magnitudes the metrics produce stay far from *)
(* overflow and from the subnormal range.                                  *)
(***************************************************************************)
FZero == [nan |-> FALSE, neg |-> FALSE, m |-> BZero, e |-> 0]

FNaN == [nan |-> TRUE, neg |-> FALSE, m |-> BZero, e |-> 0]

FIsZero(a) == ~a.nan /\ BIsZero(a.m)

FNum(neg, m, e) == [nan |-> FALSE, neg |-> neg, m |-> m, e |-> e]

\* The 54-bit v with its sticky flag, rounded to 53 bits: (v + f) * 2^e
FRound54(neg, v, e, sticky) ==
    LET q  == BHalf(v)
        up == BOdd(v) /\ (sticky \/ BOdd(q))
        r  == IF up THEN BAddInt(q, 1) ELSE q
    IN  IF BAtLeastPow(r, 5) THEN FNum(neg, BHalf(r), e + 2) ELSE FNum(neg, r, e + 1)

\* Rounds (n + f) * 2^e, where 0 < f < 1 if sticky and f = 0 otherwise;
\* a sticky n has at least 54 bits.
FRound(neg, n, e, sticky) ==
    IF BIsZero(n) THEN FZero
    ELSE LET len == BitLen(n)
         IN  IF len <= 53 THEN FNum(neg, BShl(n, 53 - len), e - (53 - len))
             ELSE LET s == BShrSticky(n, len - 54, sticky)
                  IN  FRound54(neg, s[1], e + (len - 54), s[2])

\* The next 16 quotient bits of rem / q, four times: <<limbs, remainder>>.
FRatioLimbs(rem, q) ==
    LET r3 == rem * Limb
        r2 == (r3 % q) * Limb
        r1 == (r2 % q) * Limb
        r0 == (r1 % q) * Limb
    IN  <<<<r0 \div q, r1 \div q, r2 \div q, r3 \div q>>, r0 % q>>

\* p / q with p < q scaled up into [1/2, 1): <<p * 2^s, s>>
RECURSIVE FRatioUp(_, _, _)
FRatioUp(p, q, s) == IF 2 * p >= q THEN <<p, s>> ELSE FRatioUp(2 * p, q, s + 1)

\* p / q with p >= q scaled down into [1/2, 1): <<q * 2^t, t>>
RECURSIVE FRatioDown(_, _, _)
FRatioDown(p, q, t) == IF p < q THEN <<q, t>> ELSE FRatioDown(p, 2 * q, t + 1)

\* p / q of two machine integers 0 <= p < 2^14, 0 < q < 2^14, correctly rounded:
\* a decimal literal, an int converted and divided, the mean of a boolean column.
\* The first 64 bits of the quotient are exact; FRound rounds them once.
FOfRatio(p, q) ==
    IF p = 0 THEN FZero
    ELSE IF p >= q THEN
        LET sc == FRatioDown(p, q, 0)
            f  == FRatioLimbs(p, sc[1])
        IN  FRound(FALSE, f[1], sc[2] - 64, f[2] # 0)
    ELSE LET sc == FRatioUp(p, q, 0)
             f  == FRatioLimbs(sc[1], q)
         IN  FRound(FALSE, f[1], (-64) - sc[2], f[2] # 0)

FOfInt(n) == FOfRatio(n, 1)

FNeg(a) == IF a.nan \/ FIsZero(a) THEN a ELSE [a EXCEPT !.neg = ~a.neg]

\* abs(a)
FAbs(a) == IF a.nan THEN a ELSE [a EXCEPT !.neg = FALSE]

\* |a| < |b|, for numbers
FMagLess(a, b) ==
    IF FIsZero(b) THEN FALSE
    ELSE IF FIsZero(a) THEN TRUE
    ELSE IF a.e # b.e THEN a.e < b.e
    ELSE BLess(a.m, b.m)

\* a < b; every comparison with nan is false
FLess(a, b) ==
    IF a.nan \/ b.nan THEN FALSE
    ELSE IF a.neg /\ ~b.neg THEN TRUE
    ELSE IF ~a.neg /\ b.neg THEN FALSE
    ELSE IF a.neg THEN FMagLess(b, a)
    ELSE FMagLess(a, b)

\* a > b
FGreater(a, b) == FLess(b, a)

\* a == b
FEq(a, b) == ~a.nan /\ ~b.nan /\ a = b

\* |a| - |b| for |a| >= |b| > 0, with the sign neg
FMagSub(neg, a, b) ==
    LET d == a.e - b.e
    IN  IF d <= 10 THEN FRound(neg, BSub(BShl(a.m, d), b.m), b.e, FALSE)
        ELSE LET s == BShrSticky(b.m, d - 10, FALSE)
                 x == BShl(a.m, 10)
             IN  IF s[2] THEN FRound(neg, BSub(x, BAddInt(s[1], 1)), a.e - 10, TRUE)
                 ELSE FRound(neg, BSub(x, s[1]), a.e - 10, FALSE)

\* a - b for a >= 0 and b >= 0, or nan
FSub(a, b) ==
    IF a.nan \/ b.nan THEN FNaN
    ELSE IF FIsZero(b) THEN a
    ELSE IF FIsZero(a) THEN FNeg(b)
    ELSE IF a.m = b.m /\ a.e = b.e THEN FZero
    ELSE IF FMagLess(a, b) THEN FMagSub(TRUE, b, a)
    ELSE FMagSub(FALSE, a, b)

\* 2^52, the significand of a power of two
MinSignificand == <<0, 0, 0, 16>>

\* <<rem - c * d, q + c>> for the c that brings the remainder below d
RECURSIVE FDivCorrect(_, _, _)
FDivCorrect(rem, d, q) ==
    IF BLess(rem, d) THEN <<rem, q>> ELSE FDivCorrect(BSub(rem, d), d, q + 1)

\* <<remainder, digit>> of 256 * rem / d, for rem < d and 2^52 <= d < 2^53.  The
\* digit is first estimated from below on the upper halves, then corrected.
FDivDigit(rem, d) ==
    LET r8  == BMulInt(rem, 256)
        est == (r8[3] + r8[4] * Limb) \div (d[3] + d[4] * Limb + 1)
    IN  FDivCorrect(BSub(r8, BMulInt(d, est)), d, est)

\* Long division in base 256: k more digits of rem / d appended to n, then rounded.
RECURSIVE FDivDigits(_, _, _, _, _, _)
FDivDigits(neg, n, e, rem, d, k) ==
    IF k = 0 THEN FRound(neg, n, e, ~BIsZero(rem))
    ELSE LET st == FDivDigit(rem, d)
         IN  FDivDigits(neg, BAddInt(BMulInt(n, 256), st[2]), e - 8, st[1], d, k - 1)

\* a / b for b # 0
FDiv(a, b) ==
    IF a.nan \/ b.nan THEN FNaN
    ELSE IF FIsZero(a) THEN FZero
    ELSE IF b.m = MinSignificand THEN FNum(a.neg # b.neg, a.m, a.e - b.e - 52)
    ELSE LET ge == ~BLess(a.m, b.m)
         IN  FDivDigits(a.neg # b.neg, IF ge THEN BOfInt(1) ELSE BZero, a.e - b.e,
                        IF ge THEN BSub(a.m, b.m) ELSE a.m, b.m, 7)

\* a * c for a machine integer 0 <= c <= 1000
FMulInt(a, c) ==
    IF a.nan THEN FNaN
    ELSE IF c = 0 THEN FZero
    ELSE FRound(a.neg, BMulInt(a.m, c), a.e, FALSE)

\* int(a): truncation toward zero, for a number |a| < 2^31
FTrunc(a) ==
    IF FIsZero(a) THEN 0
    ELSE LET v == IF a.e >= 0 THEN BToInt(BShl(a.m, a.e))
                  ELSE BToInt(BShrSticky(a.m, -a.e, FALSE)[1])
         IN  IF a.neg THEN -v ELSE v

\* rint(a): the nearest integer, ties to even, for a number 0 <= a < 2^31
FRint(a) ==
    IF FIsZero(a) THEN 0
    ELSE IF a.e >= 0 THEN BToInt(BShl(a.m, a.e))
    ELSE LET s  == BShrSticky(a.m, (-a.e) - 1, FALSE)
             q  == BToInt(BHalf(s[1]))
             up == BOdd(s[1]) /\ (s[2] \/ q % 2 = 1)
         IN  IF up THEN q + 1 ELSE q

(***************************************************************************)
(* Python and numpy helpers.                                               *)
(***************************************************************************)
\* The float that a value given to 3 decimals is: k / 1000.
Milli(k) == FOfRatio(k, 1000)

\* round(a, 3), a mistaken variant: the thousandths truncated
round3_truncating(a) == IF a.nan THEN FNaN ELSE FOfRatio(FTrunc(FMulInt(a, 1000)), 1000)

\* round(a, 3) of a numpy float64 >= 0: rint(a * 1000) / 1000
Round3(a) == IF a.nan THEN FNaN ELSE FOfRatio(FRint(FMulInt(a, 1000)), 1000)

\* max(a, b): the first argument unless the second is greater
PyMax(a, b) == IF FGreater(b, a) THEN b ELSE a

\* min(a, b): the first argument unless the second is smaller
PyMin(a, b) == IF FLess(b, a) THEN b ELSE a

RECURSIVE PyMaxFrom(_, _, _)
PyMaxFrom(best, s, i) ==
    IF i > Len(s) THEN best ELSE PyMaxFrom(PyMax(best, s[i]), s, i + 1)

\* max(s) of a non-empty list
PyMaxSeq(s) == PyMaxFrom(s[1], s, 2)

RECURSIVE PyMinFrom(_, _, _)
PyMinFrom(best, s, i) ==
    IF i > Len(s) THEN best ELSE PyMinFrom(PyMin(best, s[i]), s, i + 1)

\* min(s) of a non-empty list
PyMinSeq(s) == PyMinFrom(s[1], s, 2)

Half == FOfRatio(1, 2)

ThreeTenths == FOfRatio(3, 10)

One == FOfInt(1)

(***************************************************************************)
(* The severity aggregator and the unsupervised verdict.                   *)
(***************************************************************************)
\* the tier of a percentage, a mistaken variant: the first threshold exclusive
supervised_tier_exclusive(bias_percentage) ==
    IF bias_percentage > 60 THEN
        [verdict |-> "BIASED", bias_percentage |-> bias_percentage,
         reason |-> "Severe outcome-based disparity detected across groups."]
    ELSE IF bias_percentage >= 30 THEN
        [verdict |-> "POTENTIALLY BIASED", bias_percentage |-> bias_percentage,
         reason |-> "Some disparity detected. Further investigation recommended."]
    ELSE
        [verdict |-> "NOT BIASED", bias_percentage |-> bias_percentage,
         reason |-> "No significant bias detected."]

\* the tier of a percentage: verdict, bias_percentage and reason
supervised_tier(bias_percentage) ==
    IF bias_percentage >= 60 THEN
        [verdict |-> "BIASED", bias_percentage |-> bias_percentage,
         reason |-> "Severe outcome-based disparity detected across groups."]
    ELSE IF bias_percentage >= 30 THEN
        [verdict |-> "POTENTIALLY BIASED", bias_percentage |-> bias_percentage,
         reason |-> "Some disparity detected. Further investigation recommended."]
    ELSE
        [verdict |-> "NOT BIASED", bias_percentage |-> bias_percentage,
         reason |-> "No significant bias detected."]

\* rep_score, a mistaken variant: the operands of the subtraction exchanged
rep_score_exchanged(min_representation) ==
    PyMax(FZero, FDiv(FSub(min_representation, Half), Half))

\* rep_score = max(0, (0.5 - min_representation) / 0.5)
rep_score(min_representation) ==
    PyMax(FZero, FDiv(FSub(Half, min_representation), Half))

\* an outcome score, a mistaken variant: the cap at 1.0 left out
outcome_score_uncapped(value, full) == FDiv(value, full)

\* an outcome score, a mistaken variant: the value not divided by its cap
outcome_score_unscaled(value, full) == PyMin(value, One)

\* label_score, hist_score, spd_score, di_score: min(value / full, 1.0)
outcome_score(value, full) == PyMin(FDiv(value, full), One)

final_bias_verdict(min_representation, label_diff, historical_diff, max_spd, max_di_deviation) ==
    LET label_score      == outcome_score(label_diff, ThreeTenths)
        hist_score       == outcome_score(historical_diff, ThreeTenths)
        spd_score        == outcome_score(max_spd, ThreeTenths)
        di_score         == outcome_score(max_di_deviation, Half)
        outcome_severity == PyMaxSeq(<<label_score, hist_score, spd_score, di_score>>)
        severity         == PyMax(outcome_severity, rep_score(min_representation))
    IN  supervised_tier(FTrunc(FMulInt(severity, 100)))

PyMaxInt(a, b) == IF b > a THEN b ELSE a

PyMinInt(a, b) == IF b < a THEN b ELSE a

\* the unsupervised tier, a mistaken variant: the thresholds inclusive
unsupervised_tier_inclusive(min_representation) ==
    IF ~FGreater(min_representation, ThreeTenths)
    THEN "HIGH RISK OF REPRESENTATION BIAS"
    ELSE IF ~FGreater(min_representation, FOfRatio(4, 10))
    THEN "POTENTIAL REPRESENTATION BIAS"
    ELSE "NO DIRECT EVIDENCE OF BIAS (UNSUPERVISED)"

\* the verdict string of unsupervised_bias_verdict
unsupervised_tier(min_representation) ==
    IF FLess(min_representation, ThreeTenths)
    THEN "HIGH RISK OF REPRESENTATION BIAS"
    ELSE IF FLess(min_representation, FOfRatio(4, 10))
    THEN "POTENTIAL REPRESENTATION BIAS"
    ELSE "NO DIRECT EVIDENCE OF BIAS (UNSUPERVISED)"

\* unsupervised_bias_verdict, a mistaken variant: the percentage not clamped
unsupervised_bias_verdict_unclamped(min_representation) ==
    [verdict |-> unsupervised_tier(min_representation),
     bias_percentage |-> FTrunc(FMulInt(FDiv(FSub(Half, min_representation), Half), 100)),
     reason |-> "Assessment based solely on group representation. Outcome fairness cannot be evaluated without labels."]

unsupervised_bias_verdict(min_representation) ==
    LET raw == FTrunc(FMulInt(FDiv(FSub(Half, min_representation), Half), 100))
        bias_percentage == PyMaxInt(0, PyMinInt(raw, 100))
    IN  [verdict |-> unsupervised_tier(min_representation),
         bias_percentage |-> bias_percentage,
         reason |-> "Assessment based solely on group representation. Outcome fairness cannot be evaluated without labels."]

(***************************************************************************)
(* The dataset: a sequence of rows, each with the value of the sensitive   *)
(* column (s) and of the target column (t).  NA is a missing value.        *)
(***************************************************************************)
NA == "NA"

\* astype(str) of a group key
Str(v) == IF v = NA THEN "nan" ELSE v

\* df[sensitive_attr] == key: a missing value equals nothing
RowsOf(df, key) == {i \in 1..Len(df) : df[i].s # NA /\ df[i].s = key}

\* the distinct values of the sensitive column in order of first appearance
RECURSIVE UniqueFrom(_, _, _, _)
UniqueFrom(df, i, dropna, acc) ==
    IF i > Len(df) THEN acc
    ELSE IF (dropna /\ df[i].s = NA) \/ (\E j \in 1..Len(acc) : acc[j] = df[i].s)
         THEN UniqueFrom(df, i + 1, dropna, acc)
         ELSE UniqueFrom(df, i + 1, dropna, Append(acc, df[i].s))

\* df[sensitive_attr].dropna().unique()
\* unique(), a mistaken variant: the missing values not dropped
unique_keeping_na(df) == UniqueFrom(df, 1, FALSE, <<>>)

\* df[sensitive_attr].dropna().unique()
Unique(df) == UniqueFrom(df, 1, TRUE, <<>>)

CountOf(df, v) == Cardinality({i \in 1..Len(df) : df[i].s = v})

\* the keys by descending count, equal counts in order of first appearance
RECURSIVE SortByCount(_, _, _)
SortByCount(df, keys, acc) ==
    IF keys = <<>> THEN acc
    ELSE LET best == CHOOSE i \in 1..Len(keys) :
                        /\ \A j \in 1..Len(keys) : CountOf(df, keys[j]) <= CountOf(df, keys[i])
                        /\ \A j \in 1..(i - 1) : CountOf(df, keys[j]) < CountOf(df, keys[i])
         IN  SortByCount(df, SelectSeq(keys, LAMBDA k : k # keys[best]),
                         Append(acc, keys[best]))

\* df[sensitive_attr].value_counts(dropna=False): <<key, count>> rows
value_counts(df) ==
    LET keys == SortByCount(df, UniqueFrom(df, 1, FALSE, <<>>), <<>>)
    IN  [i \in 1..Len(keys) |-> [key |-> keys[i], count |-> CountOf(df, keys[i])]]

\* (df[df[sensitive_attr] == key][target_attr] == positive_label).mean():
\* nan for an empty selection
RateOf(df, key, positive_label) ==
    LET rows == RowsOf(df, key)
    IN  IF rows = {} THEN FNaN
        ELSE FOfRatio(Cardinality({i \in rows : df[i].t = positive_label}),
                      Cardinality(rows))

(***************************************************************************)
(* The group aggregator and the rate-based differential metrics.           *)
(***************************************************************************)
representation_and_sampling_bias(df) ==
    LET total       == Len(df)
        counts      == value_counts(df)
        proportions == [i \in 1..Len(counts) |-> FOfRatio(counts[i].count, total)]
        rep_df      == [i \in 1..Len(counts) |->
                           [group      |-> Str(counts[i].key),
                            count      |-> counts[i].count,
                            proportion |-> Round3(proportions[i])]]
        min_proportion == PyMinSeq(proportions)
    IN  [rep_df |-> rep_df, min_representation |-> Round3(min_proportion)]

\* label_bias, a mistaken variant: the missing values a group of their own
label_bias_counting_missing(df, positive_label) ==
    LET groups     == UniqueFrom(df, 1, FALSE, <<>>)
        rates      == [i \in 1..Len(groups) |->
                          FOfRatio(Cardinality({j \in 1..Len(df) :
                                       df[j].s = groups[i] /\ df[j].t = positive_label}),
                                   CountOf(df, groups[i]))]
        label_diff == IF Len(rates) > 1 THEN FSub(PyMaxSeq(rates), PyMinSeq(rates))
                      ELSE FZero
    IN  Round3(label_diff)

\* label_bias, a mistaken variant: a spread only for more than two groups
label_bias_over_two(df, positive_label) ==
    LET groups     == Unique(df)
        rates      == [i \in 1..Len(groups) |-> RateOf(df, groups[i], positive_label)]
        label_diff == IF Len(rates) > 2 THEN FSub(PyMaxSeq(rates), PyMinSeq(rates))
                      ELSE FZero
    IN  Round3(label_diff)

label_bias(df, positive_label) ==
    LET groups     == Unique(df)
        rates      == [i \in 1..Len(groups) |-> RateOf(df, groups[i], positive_label)]
        label_diff == IF Len(rates) > 1 THEN FSub(PyMaxSeq(rates), PyMinSeq(rates))
                      ELSE FZero
    IN  Round3(label_diff)

\* historical_bias, a mistaken variant: a spread only for more than two groups
historical_bias_over_two(df, positive_label) ==
    LET groups    == Unique(df)
        outcomes  == [i \in 1..Len(groups) |-> RateOf(df, groups[i], positive_label)]
        hist_diff == IF Len(outcomes) > 2
                     THEN FSub(PyMaxSeq(outcomes), PyMinSeq(outcomes))
                     ELSE FZero
    IN  Round3(hist_diff)

historical_bias(df, positive_label) ==
    LET groups    == Unique(df)
        outcomes  == [i \in 1..Len(groups) |-> RateOf(df, groups[i], positive_label)]
        hist_diff == IF Len(outcomes) > 1
                     THEN FSub(PyMaxSeq(outcomes), PyMinSeq(outcomes))
                     ELSE FZero
    IN  Round3(hist_diff)

\* statistical_parity_difference, a mistaken variant: abs() left out
statistical_parity_difference_signed(df, positive_label, reference_group) ==
    LET ref_rate == RateOf(df, reference_group, positive_label)
        groups   == Unique(df)
        spd_vals == [i \in 1..Len(groups) |->
                        FSub(RateOf(df, groups[i], positive_label), ref_rate)]
        max_spd  == IF Len(spd_vals) > 0 THEN PyMaxSeq(spd_vals) ELSE FZero
    IN  Round3(FAbs(max_spd))

statistical_parity_difference(df, positive_label, reference_group) ==
    LET ref_rate == RateOf(df, reference_group, positive_label)
        groups   == Unique(df)
        spd_vals == [i \in 1..Len(groups) |->
                        FSub(RateOf(df, groups[i], positive_label), ref_rate)]
        abs_vals == [i \in 1..Len(spd_vals) |-> FAbs(spd_vals[i])]
        max_spd  == IF Len(spd_vals) > 0 THEN PyMaxSeq(abs_vals) ELSE FZero
    IN  Round3(max_spd)

\* disparate_impact, a mistaken variant: the ratio itself, not its distance from 1
disparate_impact_ratio(df, positive_label, reference_group) ==
    LET ref_rate   == RateOf(df, reference_group, positive_label)
        groups     == Unique(df)
        deviations == IF FGreater(ref_rate, FZero)
                      THEN [i \in 1..Len(groups) |->
                               FAbs(FDiv(RateOf(df, groups[i], positive_label), ref_rate))]
                      ELSE <<>>
        max_di_dev == IF Len(deviations) > 0 THEN PyMaxSeq(deviations) ELSE FZero
    IN  Round3(max_di_dev)

disparate_impact(df, positive_label, reference_group) ==
    LET ref_rate   == RateOf(df, reference_group, positive_label)
        groups     == Unique(df)
        deviations == IF FGreater(ref_rate, FZero)
                      THEN [i \in 1..Len(groups) |->
                               FAbs(FSub(One,
                                    FDiv(RateOf(df, groups[i], positive_label), ref_rate)))]
                      ELSE <<>>
        max_di_dev == IF Len(deviations) > 0 THEN PyMaxSeq(deviations) ELSE FZero
    IN  Round3(max_di_dev)

\* the reference group, a mistaken variant: the first row with the smallest count
reference_group_of_idxmin(rep_df) ==
    LET i == CHOOSE i \in 1..Len(rep_df) :
                 /\ \A j \in 1..Len(rep_df) : rep_df[j].count >= rep_df[i].count
                 /\ \A j \in 1..(i - 1) : rep_df[j].count > rep_df[i].count
    IN  rep_df[i].group

\* rep_df.loc[rep_df["count"].idxmax(), "group"]: the first row with the largest count
reference_group_of(rep_df) ==
    LET i == CHOOSE i \in 1..Len(rep_df) :
                 /\ \A j \in 1..Len(rep_df) : rep_df[j].count <= rep_df[i].count
                 /\ \A j \in 1..(i - 1) : rep_df[j].count < rep_df[i].count
    IN  rep_df[i].group

\* detect_bias_types, a mistaken variant: the thresholds inclusive
detect_bias_types_inclusive(min_rep, label_diff, hist_diff, max_spd, max_di_dev) ==
    LET rep     == IF ~FGreater(min_rep, FOfRatio(4, 10)) THEN <<"Representation Bias">> ELSE <<>>
        label   == IF ~FLess(label_diff, FOfRatio(2, 10)) THEN <<"Label Bias">> ELSE <<>>
        hist    == IF ~FLess(hist_diff, FOfRatio(2, 10)) THEN <<"Historical Bias">> ELSE <<>>
        outcome == IF ~FLess(max_spd, FOfRatio(1, 10)) \/ ~FLess(max_di_dev, FOfRatio(2, 10))
                   THEN <<"Outcome Bias">> ELSE <<>>
        bias_types == rep \o label \o hist \o outcome
    IN  IF bias_types = <<>> THEN <<"No Significant Bias Detected">> ELSE bias_types

detect_bias_types(min_rep, label_diff, hist_diff, max_spd, max_di_dev) ==
    LET rep     == IF FLess(min_rep, FOfRatio(4, 10)) THEN <<"Representation Bias">> ELSE <<>>
        label   == IF FGreater(label_diff, FOfRatio(2, 10)) THEN <<"Label Bias">> ELSE <<>>
        hist    == IF FGreater(hist_diff, FOfRatio(2, 10)) THEN <<"Historical Bias">> ELSE <<>>
        outcome == IF FGreater(max_spd, FOfRatio(1, 10)) \/ FGreater(max_di_dev, FOfRatio(2, 10))
                   THEN <<"Outcome Bias">> ELSE <<>>
        bias_types == rep \o label \o hist \o outcome
    IN  IF bias_types = <<>> THEN <<"No Significant Bias Detected">> ELSE bias_types

\* the recommendations stored under a bias type
recommended_fixes(bias_type) ==
    CASE bias_type = "Representation Bias" ->
             <<"Collect more data for underrepresented groups",
               "Use stratified sampling during data collection",
               "Apply re-weighting during model training (not data duplication)">>
      [] bias_type = "Label Bias" ->
             <<"Audit labeling process for human or systemic bias",
               "Use blind or multi-annotator labeling",
               "Apply label smoothing or re-weighting during training">>
      [] bias_type = "Historical Bias" ->
             <<"Incorporate fairness constraints during model training",
               "Use counterfactual fairness techniques",
               "Add post-processing fairness adjustments">>
      [] bias_type = "Outcome Bias" ->
             <<"Use fairness-aware algorithms (e.g., Fairlearn)",
               "Apply threshold optimization per group",
               "Use post-processing methods like equalized odds">>
      [] bias_type = "No Significant Bias Detected" ->
             <<"Continue monitoring bias over time",
               "Validate fairness after model training">>

\* one branch of the diagnosis: the bias type appended and its entry of fixes
diagnosed(fires, bias_type) ==
    IF fires
    THEN [bias_types |-> <<bias_type>>,
          fixes |-> <<[key |-> bias_type, value |-> recommended_fixes(bias_type)]>>]
    ELSE [bias_types |-> <<>>, fixes |-> <<>>]

\* the diagnosis, a mistaken variant: the threshold of historical_diff inclusive
diagnose_bias_inclusive(min_representation, label_diff, historical_diff, max_spd, max_di_deviation) ==
    LET rep     == diagnosed(FLess(min_representation, FOfRatio(4, 10)), "Representation Bias")
        label   == diagnosed(FGreater(label_diff, FOfRatio(2, 10)), "Label Bias")
        hist    == diagnosed(~FLess(historical_diff, FOfRatio(2, 10)), "Historical Bias")
        outcome == diagnosed(FGreater(max_spd, FOfRatio(1, 10))
                                 \/ FGreater(max_di_deviation, FOfRatio(2, 10)),
                             "Outcome Bias")
        types   == rep.bias_types \o label.bias_types \o hist.bias_types \o outcome.bias_types
        none    == diagnosed(types = <<>>, "No Significant Bias Detected")
    IN  [bias_types |-> types \o none.bias_types,
         fixes |-> rep.fixes \o label.fixes \o hist.fixes \o outcome.fixes \o none.fixes]

\* the returned pair: the list bias_types and the dictionary fixes, the
\* dictionary as its entries in the order of insertion
diagnose_bias_and_recommend_fixes(min_representation, label_diff, historical_diff, max_spd, max_di_deviation) ==
    LET rep     == diagnosed(FLess(min_representation, FOfRatio(4, 10)), "Representation Bias")
        label   == diagnosed(FGreater(label_diff, FOfRatio(2, 10)), "Label Bias")
        hist    == diagnosed(FGreater(historical_diff, FOfRatio(2, 10)), "Historical Bias")
        outcome == diagnosed(FGreater(max_spd, FOfRatio(1, 10))
                                 \/ FGreater(max_di_deviation, FOfRatio(2, 10)),
                             "Outcome Bias")
        types   == rep.bias_types \o label.bias_types \o hist.bias_types \o outcome.bias_types
        none    == diagnosed(types = <<>>, "No Significant Bias Detected")
    IN  [bias_types |-> types \o none.bias_types,
         fixes |-> rep.fixes \o label.fixes \o hist.fixes \o outcome.fixes \o none.fixes]

(***************************************************************************)
(* The inputs.                                                             *)
(***************************************************************************)
\* rows of an uploaded dataset
MaxRows == 3

\* the largest value, in thousandths, of a metric swept on its own
MaxMilli == 1000

GroupValues == {"A", "B", "C"}

TargetValues == {"yes", "no"}

Row == [s : GroupValues \cup {NA}, t : TargetValues]

Repeat(r, n) == [i \in 1..n |-> r]

\* 10 rows: group A 8 times, 6 of them "yes"; group B twice, never "yes";
\* in three orders of the rows
ScenarioDatasets ==
    LET yes == [s |-> "A", t |-> "yes"]
        no  == [s |-> "A", t |-> "no"]
        b   == [s |-> "B", t |-> "no"]
    IN  {Repeat(yes, 6) \o Repeat(no, 2) \o Repeat(b, 2),
         Repeat(b, 2) \o Repeat(no, 2) \o Repeat(yes, 6),
         <<no, b>> \o Repeat(yes, 3) \o <<b, no>> \o Repeat(yes, 3)}

\* three groups whose rates are 1/2, 0 and 1: group A twice, B and C once;
\* and with B twice, in two orders of the rows, the counts of A and B tied;
\* and with a missing sensitive value in the place of C
SpreadDatasets ==
    LET yes == [s |-> "A", t |-> "yes"]
        no  == [s |-> "A", t |-> "no"]
        b   == [s |-> "B", t |-> "no"]
        c   == [s |-> "C", t |-> "yes"]
        na  == [s |-> NA, t |-> "yes"]
    IN  {<<yes, no, b, c>>, <<yes, no, b, b, c>>, <<b, b, c, no, yes>>,
         <<yes, no, b, b, na>>}

Datasets ==
    UNION {[1..n -> Row] : n \in 1..MaxRows} \cup ScenarioDatasets \cup SpreadDatasets

Metric == {"min_representation", "label_diff", "historical_diff", "max_spd",
           "max_di_deviation"}

\* a metric bundle in thousandths: no group under-represented, no disparity
Unbiased ==
    [min_representation |-> 500, label_diff |-> 0, historical_diff |-> 0,
     max_spd |-> 0, max_di_deviation |-> 0]

\* a few levels of each metric, combined freely
LevelValues ==
    [min_representation |-> {100, 400, 1000}, label_diff |-> {0, 100, 400},
     historical_diff |-> {0, 100, 400}, max_spd |-> {0, 100, 400},
     max_di_deviation |-> {0, 100, 1500}]

Levels ==
    [min_representation : LevelValues.min_representation,
     label_diff : LevelValues.label_diff,
     historical_diff : LevelValues.historical_diff,
     max_spd : LevelValues.max_spd,
     max_di_deviation : LevelValues.max_di_deviation]

\* one metric swept over every thousandth, the others at rest
Sweeps == {[Unbiased EXCEPT ![f] = k] : f \in Metric, k \in 0..MaxMilli}

\* the bundles the verdicts are applied to
Bundles == Sweeps \cup Levels

(***************************************************************************)
(* State.                                                                  *)
(***************************************************************************)
VARIABLES
    pc,               \* "upload", "loaded", "supervised", "unsupervised": the page shown
    df,               \* the uploaded dataset
    positive_label,   \* the positive class chosen for the run
    rep_df,           \* the representation table of the run
    metrics,          \* min_rep, label_diff, hist_diff, max_spd, max_di_dev of the run
    reference_group,  \* the reference group of the run
    result,           \* the verdict of the run
    bias_types,       \* the bias types of the run
    bundle,           \* a metric bundle given to 3 decimals, in thousandths
    verdict,          \* final_bias_verdict of the bundle
    unsupervised,     \* unsupervised_bias_verdict of the bundle's min_representation
    bundle_types,     \* detect_bias_types of the bundle
    diagnosis,        \* diagnose_bias_and_recommend_fixes of the bundle
    raised,           \* the metric raised to reach the bundle, "" if none was
    before            \* final_bias_verdict of the bundle that was raised

vars == <<pc, df, positive_label, rep_df, metrics, reference_group, result, bias_types,
          bundle, verdict, unsupervised, bundle_types, diagnosis, raised, before>>

appVars == <<pc, df, positive_label, rep_df, metrics, reference_group, result, bias_types>>

bundleVars == <<bundle, verdict, unsupervised, bundle_types, diagnosis, raised, before>>

NoTypes == <<>>

NoDiagnosis == [bias_types |-> <<>>, fixes |-> <<>>]

NoResult == [verdict |-> "", bias_percentage |-> -1, reason |-> ""]

NoMetrics ==
    [min_rep |-> FNaN, label_diff |-> FNaN, hist_diff |-> FNaN, max_spd |-> FNaN,
     max_di_dev |-> FNaN]

AppInit ==
    /\ pc = "upload"
    /\ df = <<>>
    /\ positive_label = ""
    /\ rep_df = <<>>
    /\ metrics = NoMetrics
    /\ reference_group = ""
    /\ result = NoResult
    /\ bias_types = <<>>

(***************************************************************************)
(* The dashboard: upload a dataset, then run one analysis on it.           *)
(***************************************************************************)
\* df[target_attr].dropna().unique(): the options of the positive outcome
target_values(d) == {d[i].t : i \in 1..Len(d)}

Upload(d) ==
    /\ pc = "upload"
    /\ df' = d
    /\ pc' = "loaded"
    /\ UNCHANGED <<positive_label, rep_df, metrics, reference_group, result, bias_types>>

\* the supervised run: "Run Comprehensive Bias Analysis"
RunSupervised(label) ==
    /\ pc = "loaded"
    /\ \E rep \in {representation_and_sampling_bias(df)} :
       \E label_diff \in {label_bias(df, label)} :
       \E hist_diff \in {historical_bias(df, label)} :
       \E ref \in {reference_group_of(rep.rep_df)} :
       \E max_spd \in {statistical_parity_difference(df, label, ref)} :
       \E max_di_dev \in {disparate_impact(df, label, ref)} :
           /\ rep_df' = rep.rep_df
           /\ metrics' = [min_rep |-> rep.min_representation, label_diff |-> label_diff,
                          hist_diff |-> hist_diff, max_spd |-> max_spd,
                          max_di_dev |-> max_di_dev]
           /\ reference_group' = ref
           /\ result' = final_bias_verdict(rep.min_representation, label_diff, hist_diff,
                                           max_spd, max_di_dev)
           /\ bias_types' = detect_bias_types(rep.min_representation, label_diff, hist_diff,
                                              max_spd, max_di_dev)
    /\ positive_label' = label
    /\ pc' = "supervised"
    /\ UNCHANGED df

\* the unsupervised run: "Analyze Representation Bias"
RunUnsupervised ==
    /\ pc = "loaded"
    /\ \E rep \in {representation_and_sampling_bias(df)} :
           /\ rep_df' = rep.rep_df
           /\ metrics' = [NoMetrics EXCEPT !.min_rep = rep.min_representation]
           /\ result' = unsupervised_bias_verdict(rep.min_representation)
    /\ pc' = "unsupervised"
    /\ UNCHANGED <<df, positive_label, reference_group, bias_types>>

Init ==
    /\ AppInit
    /\ bundle = Unbiased
    /\ verdict = NoResult
    /\ unsupervised = NoResult
    /\ bundle_types = NoTypes
    /\ diagnosis = NoDiagnosis
    /\ raised = ""
    /\ before = NoResult

Next ==
    \/ \E d \in Datasets : Upload(d) /\ UNCHANGED bundleVars
    \/ \E label \in target_values(df) : RunSupervised(label) /\ UNCHANGED bundleVars
    \/ RunUnsupervised /\ UNCHANGED bundleVars

Spec == Init /\ [][Next]_vars

(***************************************************************************)
(* The verdict functions applied to metric bundles given to 3 decimals.    *)
(***************************************************************************)
FinalOf(b) ==
    final_bias_verdict(Milli(b.min_representation), Milli(b.label_diff),
                       Milli(b.historical_diff), Milli(b.max_spd),
                       Milli(b.max_di_deviation))

UnsupervisedOf(b) == unsupervised_bias_verdict(Milli(b.min_representation))

FinalVerdict ==
    /\ verdict = NoResult
    /\ verdict' = FinalOf(bundle)
    /\ UNCHANGED <<bundle, unsupervised, bundle_types, diagnosis, raised, before>>

UnsupervisedVerdict ==
    /\ unsupervised = NoResult
    /\ unsupervised' = UnsupervisedOf(bundle)
    /\ UNCHANGED <<bundle, verdict, bundle_types, diagnosis, raised, before>>

TypesOf(b) ==
    detect_bias_types(Milli(b.min_representation), Milli(b.label_diff),
                      Milli(b.historical_diff), Milli(b.max_spd),
                      Milli(b.max_di_deviation))

DiagnosisOf(b) ==
    diagnose_bias_and_recommend_fixes(Milli(b.min_representation), Milli(b.label_diff),
                                      Milli(b.historical_diff), Milli(b.max_spd),
                                      Milli(b.max_di_deviation))

DetectTypes ==
    /\ bundle_types = NoTypes
    /\ bundle_types' = TypesOf(bundle)
    /\ UNCHANGED <<bundle, verdict, unsupervised, diagnosis, raised, before>>

Diagnose ==
    /\ diagnosis = NoDiagnosis
    /\ diagnosis' = DiagnosisOf(bundle)
    /\ UNCHANGED <<bundle, verdict, unsupervised, bundle_types, raised, before>>

\* the bundles in which metric f alone is larger, by a thousandth or to a level
Raised(b, f) ==
    {c \in {[b EXCEPT ![f] = k] : k \in {b[f] + 1} \cup LevelValues[f]} :
        c[f] > b[f] /\ c \in Bundles}

\* the four functions again, with one metric raised and the others held fixed
Raise(f) ==
    /\ verdict # NoResult
    /\ unsupervised # NoResult
    /\ bundle_types # NoTypes
    /\ diagnosis # NoDiagnosis
    /\ bundle' \in Raised(bundle, f)
    /\ verdict' = FinalOf(bundle')
    /\ unsupervised' = UnsupervisedOf(bundle')
    /\ bundle_types' = TypesOf(bundle')
    /\ diagnosis' = DiagnosisOf(bundle')
    /\ raised' = f
    /\ before' = verdict

VerdictInit ==
    /\ AppInit
    /\ bundle \in Bundles
    /\ verdict = NoResult
    /\ unsupervised = NoResult
    /\ bundle_types = NoTypes
    /\ diagnosis = NoDiagnosis
    /\ raised = ""
    /\ before = NoResult

VerdictNext ==
    \/ FinalVerdict /\ UNCHANGED appVars
    \/ UnsupervisedVerdict /\ UNCHANGED appVars
    \/ DetectTypes /\ UNCHANGED appVars
    \/ Diagnose /\ UNCHANGED appVars
    \/ \E f \in Metric : Raise(f) /\ UNCHANGED appVars

SpecVerdict == VerdictInit /\ [][VerdictNext]_vars
(***************************************************************************)
(* Properties of the verdict functions.                                    *)
(***************************************************************************)
\* C1: final_bias_verdict maps its own bias_percentage to the tier: 60 and
\* above gives "BIASED", 30 to 59 gives "POTENTIALLY BIASED", below 30 gives
\* "NOT BIASED", each with the fixed reason string of its tier.
C1_TierOfPercentage ==
    verdict # NoResult =>
        LET p == verdict.bias_percentage
        IN  /\ p >= 60 =>
                /\ verdict.verdict = "BIASED"
                /\ verdict.reason = "Severe outcome-based disparity detected across groups."
            /\ (30 <= p /\ p <= 59) =>
                /\ verdict.verdict = "POTENTIALLY BIASED"
                /\ verdict.reason = "Some disparity detected. Further investigation recommended."
            /\ p < 30 =>
                /\ verdict.verdict = "NOT BIASED"
                /\ verdict.reason = "No significant bias detected."

\* a verdict of exactly 60 percent, which is BIASED
C1_Witness == verdict.bias_percentage = 60 /\ verdict.verdict = "BIASED"

\* the severity of a bundle in exact arithmetic, as a multiple of 1/1500:
\* the largest of the five scores
ExactSeverity(b) ==
    LET rep   == 3 * PyMaxInt(0, 500 - b.min_representation)
        label == PyMinInt(5 * b.label_diff, 1500)
        hist  == PyMinInt(5 * b.historical_diff, 1500)
        spd   == PyMinInt(5 * b.max_spd, 1500)
        di    == PyMinInt(3 * b.max_di_deviation, 1500)
    IN  PyMaxInt(PyMaxInt(PyMaxInt(label, hist), PyMaxInt(spd, di)), rep)

\* C2: for every bundle given to 3 decimals, final_bias_verdict returns
\* bias_percentage = floor(100 * severity), severity being the largest of
\* rep_score, label_score, hist_score, spd_score and di_score.
C2_FloorOfSeverity ==
    verdict # NoResult => verdict.bias_percentage = (100 * ExactSeverity(bundle)) \div 1500

\* C3: with the other four metrics held fixed, raising min_representation never
\* increases bias_percentage, and raising label_diff, historical_diff, max_spd
\* or max_di_deviation never decreases it.
C3_Monotone ==
    raised # "" =>
        IF raised = "min_representation"
        THEN verdict.bias_percentage <= before.bias_percentage
        ELSE verdict.bias_percentage >= before.bias_percentage

\* label_diff raised, and the percentage with it
C3_Witness ==
    /\ raised = "label_diff"
    /\ before # NoResult
    /\ verdict.bias_percentage > before.bias_percentage

\* C4: the bias_percentage of final_bias_verdict and of
\* unsupervised_bias_verdict is an integer in [0,100], also for metrics above
\* their caps.
C4_PercentageRange ==
    /\ verdict # NoResult => verdict.bias_percentage \in 0..100
    /\ unsupervised # NoResult => unsupervised.bias_percentage \in 0..100

\* both verdicts of a bundle whose max_di_deviation is above 1 and whose
\* min_representation is above 0.5
C4_Witness ==
    /\ bundle.max_di_deviation > 1000
    /\ bundle.min_representation > 500
    /\ verdict.bias_percentage = 100
    /\ unsupervised.bias_percentage = 0

\* C6: unsupervised_bias_verdict selects its verdict from min_representation
\* alone: below 0.3 high risk, from 0.3 to below 0.4 potential, from 0.4 on no
\* direct evidence; the reason string is the same in the three tiers.
C6_UnsupervisedTier ==
    unsupervised # NoResult =>
        /\ unsupervised.verdict =
               IF bundle.min_representation < 300
               THEN "HIGH RISK OF REPRESENTATION BIAS"
               ELSE IF bundle.min_representation < 400
               THEN "POTENTIAL REPRESENTATION BIAS"
               ELSE "NO DIRECT EVIDENCE OF BIAS (UNSUPERVISED)"
        /\ unsupervised.reason = "Assessment based solely on group representation. Outcome fairness cannot be evaluated without labels."

\* min_representation exactly 0.4: no direct evidence
C6_Witness ==
    /\ bundle.min_representation = 400
    /\ unsupervised.verdict = "NO DIRECT EVIDENCE OF BIAS (UNSUPERVISED)"

\* C7: for every min_representation given to 3 decimals,
\* unsupervised_bias_verdict returns bias_percentage =
\* clamp(floor((0.5 - min_representation) / 0.5 * 100), 0, 100), which is 20 for
\* min_representation = 0.4.
C7_ClampedFloor ==
    unsupervised # NoResult =>
        unsupervised.bias_percentage =
            PyMaxInt(0, PyMinInt(((500 - bundle.min_representation) * 100) \div 500, 100))

(***************************************************************************)
(* Properties of the metrics of a run.                                     *)
(***************************************************************************)
Abs(n) == IF n < 0 THEN -n ELSE n

\* the rows of group g, and those of them whose target is the label
GroupSize(d, g) == Cardinality({i \in 1..Len(d) : d[i].s = g})

GroupPositives(d, g, label) ==
    Cardinality({i \in 1..Len(d) : d[i].s = g /\ d[i].t = label})

NonMissingGroups(d) == {d[i].s : i \in 1..Len(d)} \ {NA}

\* the number of thousandths nearest to a float >= 0
Thousandths(a) == FRint(FMulInt(a, 1000))

\* a float that is the number k / 1000 to 3 decimals, k within half a
\* thousandth of the fraction num / den
IsRounded(a, num, den) ==
    /\ ~a.nan
    /\ a = Milli(Thousandths(a))
    /\ 2 * Abs(Thousandths(a) * den - 1000 * num) <= den

IsScenario(d) ==
    /\ Len(d) = 10
    /\ GroupSize(d, "A") = 8
    /\ GroupSize(d, "B") = 2
    /\ GroupPositives(d, "A", "yes") = 6
    /\ GroupPositives(d, "B", "yes") = 0

\* C5: for the 10-row dataset with group A 8 times and B twice, 6 rows of A
\* and no row of B being "yes", a supervised run with positive label "yes"
\* yields min_representation 0.2, reference group A, label_diff 0.75, max_spd
\* 0.75, max_di_deviation 1.0, bias_percentage 100 and verdict "BIASED".
C5_Scenario ==
    (pc = "supervised" /\ IsScenario(df) /\ positive_label = "yes") =>
        /\ metrics.min_rep = Milli(200)
        /\ reference_group = "A"
        /\ metrics.label_diff = Milli(750)
        /\ metrics.max_spd = Milli(750)
        /\ metrics.max_di_dev = One
        /\ result.bias_percentage = 100
        /\ result.verdict = "BIASED"

\* the supervised run of the scenario, rows of B first
C5_Witness ==
    /\ pc = "supervised"
    /\ IsScenario(df)
    /\ df[1].s = "B"
    /\ positive_label = "yes"
    /\ reference_group = "A"
    /\ result.bias_percentage = 100

RECURSIVE SumOfCounts(_, _)
SumOfCounts(table, i) ==
    IF i > Len(table) THEN 0 ELSE table[i].count + SumOfCounts(table, i + 1)

\* C8: the group counts of representation_and_sampling_bias sum to the number
\* of rows, each proportion of the table is count / total rounded to 3
\* decimals (within 0.0005 of it), and min_representation is the smallest
\* proportion of the table.
C8_Representation ==
    pc \in {"supervised", "unsupervised"} =>
        /\ SumOfCounts(rep_df, 1) = Len(df)
        /\ \A i \in 1..Len(rep_df) :
               IsRounded(rep_df[i].proportion, rep_df[i].count, Len(df))
        /\ \E i \in 1..Len(rep_df) :
               /\ metrics.min_rep = rep_df[i].proportion
               /\ \A j \in 1..Len(rep_df) : ~FLess(rep_df[j].proportion, metrics.min_rep)

\* a run on three rows of three groups, one of them the missing value: each
\* proportion is 0.333
C8_Witness ==
    /\ pc = "unsupervised"
    /\ Len(rep_df) = 3
    /\ \E i \in 1..3 : rep_df[i].group = "nan"
    /\ \A i \in 1..3 : rep_df[i].proportion = Milli(333)
    /\ metrics.min_rep = Milli(333)

SingleGroup(d) ==
    /\ Len(d) >= 1
    /\ \A i \in 1..Len(d) : d[i].s # NA /\ d[i].s = d[1].s

\* C9: for a dataset of one group and no missing value, min_representation is
\* 1.0 and label_bias and historical_bias return 0; label_bias and
\* historical_bias return 0 whenever fewer than 2 non-missing groups are
\* present, no group at all included.
C9_SingleGroup ==
    /\ (pc \in {"supervised", "unsupervised"} /\ SingleGroup(df)) =>
           metrics.min_rep = One
    /\ (pc = "supervised" /\ Cardinality(NonMissingGroups(df)) < 2) =>
           /\ FEq(metrics.label_diff, FZero)
           /\ FEq(metrics.hist_diff, FZero)

\* a supervised run on three rows of one group whose targets differ
C9_Witness ==
    /\ pc = "supervised"
    /\ SingleGroup(df)
    /\ Len(df) = 3
    /\ df[1].t # df[2].t
    /\ metrics.min_rep = One
    /\ FEq(metrics.label_diff, FZero)

\* C10: label_bias and historical_bias return the same value: the largest
\* minus the smallest rate of the non-missing groups, rounded to 3 decimals,
\* the rate of a group being its rows with the positive label over its rows.
C10_SameSpread ==
    pc = "supervised" =>
        /\ metrics.label_diff = metrics.hist_diff
        /\ LET G == NonMissingGroups(df)
               Size(g) == GroupSize(df, g)
               Pos(g) == GroupPositives(df, g, positive_label)
           IN  IF Cardinality(G) < 2 THEN IsRounded(metrics.label_diff, 0, 1)
               ELSE \E g, h \in G :
                        /\ \A x \in G : /\ Pos(x) * Size(g) <= Pos(g) * Size(x)
                                        /\ Pos(h) * Size(x) <= Pos(x) * Size(h)
                        /\ IsRounded(metrics.label_diff,
                                     Pos(g) * Size(h) - Pos(h) * Size(g),
                                     Size(g) * Size(h))

\* a supervised run on two groups whose rates are 1/2 and 1
C10_Witness ==
    /\ pc = "supervised"
    /\ Len(df) = 3
    /\ Cardinality(NonMissingGroups(df)) = 2
    /\ metrics.label_diff = Milli(500)
    /\ metrics.hist_diff = Milli(500)

\* the dataset with rows i and i + 1 exchanged
SwapRows(d, i) ==
    [j \in 1..Len(d) |-> IF j = i THEN d[i + 1] ELSE IF j = i + 1 THEN d[i] ELSE d[j]]

\* |rate of g - rate of r| as a fraction: numerator and denominator
RateGap(d, g, r, label) ==
    [num |-> Abs(GroupPositives(d, g, label) * GroupSize(d, r)
                     - GroupPositives(d, r, label) * GroupSize(d, g)),
     den |-> GroupSize(d, g) * GroupSize(d, r)]

\* C11: statistical_parity_difference returns the largest |group_rate -
\* ref_rate| of the non-missing groups, rounded to 3 decimals; exchanging rows
\* of the dataset does not change it; it is 0 when every group's rate is the
\* reference rate.  (A reference group without rows has the rate nan: the
\* differences and their maximum are nan, and 0 when there is no group.)
C11_ParityDifference ==
    pc = "supervised" =>
        /\ \A i \in 1..(Len(df) - 1) :
               statistical_parity_difference(SwapRows(df, i), positive_label,
                                             reference_group) = metrics.max_spd
        /\ reference_group \in NonMissingGroups(df) =>
               LET G == NonMissingGroups(df)
                   Gap(g) == RateGap(df, g, reference_group, positive_label)
               IN  /\ \E g \in G :
                          /\ \A x \in G : Gap(x).num * Gap(g).den <= Gap(g).num * Gap(x).den
                          /\ IsRounded(metrics.max_spd, Gap(g).num, Gap(g).den)
                   /\ (\A x \in G : Gap(x).num = 0) => FEq(metrics.max_spd, FZero)
        /\ reference_group \notin NonMissingGroups(df) =>
               IF NonMissingGroups(df) = {} THEN FEq(metrics.max_spd, FZero)
               ELSE metrics.max_spd.nan

\* a run on three groups, the reference group's rate between the two others
C11_Witness ==
    /\ pc = "supervised"
    /\ Cardinality(NonMissingGroups(df)) = 3
    /\ reference_group = "A"
    /\ GroupSize(df, "A") = 2
    /\ GroupPositives(df, "A", positive_label) = 1
    /\ metrics.max_spd = Milli(500)

\* |1 - rate of g / rate of r| as a fraction, for a rate of r above 0
ImpactGap(d, g, r, label) ==
    [num |-> Abs(GroupPositives(d, r, label) * GroupSize(d, g)
                     - GroupPositives(d, g, label) * GroupSize(d, r)),
     den |-> GroupPositives(d, r, label) * GroupSize(d, g)]

\* C12: disparate_impact returns the largest |1 - group_rate / ref_rate| of
\* the non-missing groups, rounded to 3 decimals, when the reference group's
\* rate is above 0, and exactly 0 when that rate is 0, also when another group
\* has a positive rate.  (A reference group without rows has the rate nan,
\* which is not above 0: the result is 0.)
C12_DisparateImpact ==
    pc = "supervised" =>
        LET G == NonMissingGroups(df)
            Gap(g) == ImpactGap(df, g, reference_group, positive_label)
        IN  IF GroupPositives(df, reference_group, positive_label) = 0
            THEN FEq(metrics.max_di_dev, FZero)
            ELSE \E g \in G :
                     /\ \A x \in G : Gap(x).num * Gap(g).den <= Gap(g).num * Gap(x).den
                     /\ IsRounded(metrics.max_di_dev, Gap(g).num, Gap(g).den)

\* the reference group's rate is 0 and another group's is not: max_spd is
\* above 0 and max_di_deviation is 0
C12_Witness ==
    /\ pc = "supervised"
    /\ reference_group \in NonMissingGroups(df)
    /\ GroupPositives(df, reference_group, positive_label) = 0
    /\ FGreater(metrics.max_spd, FZero)
    /\ FEq(metrics.max_di_dev, FZero)

\* C13: in every supervised run the reference group is the group with the
\* largest row count of the representation table, and it is one of the
\* groups whose rate statistical_parity_difference and disparate_impact
\* compute, so that its rate is a defined number, also when the rows with a
\* missing sensitive value are the most frequent.
C13_ReferenceGroup ==
    pc = "supervised" =>
        /\ \E i \in 1..Len(rep_df) :
               /\ rep_df[i].group = reference_group
               /\ \A j \in 1..Len(rep_df) : rep_df[j].count <= rep_df[i].count
        /\ reference_group \in NonMissingGroups(df)
        /\ ~RateOf(df, reference_group, positive_label).nan
        /\ ~metrics.max_spd.nan

\* the dataset without the rows whose sensitive value is missing
DropMissing(d) == SelectSeq(d, LAMBDA r : r.s # NA)

MissingRows(d) == Cardinality({i \in 1..Len(d) : d[i].s = NA})

\* C14: the rows whose sensitive value is missing are a group of the
\* representation table, counted like the others, but no group of the rate
\* metrics: label_diff and historical_diff are what they are without those
\* rows, whatever their target values.
C14_MissingRows ==
    pc = "supervised" =>
        /\ MissingRows(df) > 0 =>
               \E i \in 1..Len(rep_df) :
                   rep_df[i].group = "nan" /\ rep_df[i].count = MissingRows(df)
        /\ MissingRows(df) = 0 => \A i \in 1..Len(rep_df) : rep_df[i].group # "nan"
        /\ \A i \in 1..Len(Unique(df)) : Unique(df)[i] # NA
        /\ metrics.label_diff = label_bias(DropMissing(df), positive_label)
        /\ metrics.hist_diff = historical_bias(DropMissing(df), positive_label)

\* a run in which the missing rows are the smallest group of the table and
\* the two other groups differ in their rates
C14_Witness ==
    /\ pc = "supervised"
    /\ MissingRows(df) = 1
    /\ Len(df) = 5
    /\ \E i \in 1..Len(rep_df) :
           /\ rep_df[i].group = "nan"
           /\ rep_df[i].proportion = metrics.min_rep
           /\ \A j \in 1..Len(rep_df) : j # i => rep_df[j].count > 1
    /\ metrics.min_rep = Milli(200)
    /\ metrics.label_diff = Milli(500)

\* a float that is a number in [0, 1]
InUnitInterval(a) == ~a.nan /\ ~a.neg /\ ~FGreater(a, One)

\* C15: for every dataset of at least one row the four outcome metrics of a
\* supervised run are defined numbers >= 0, and label_diff, historical_diff
\* and max_spd are <= 1.
C15_MetricsDefined ==
    (pc = "supervised" /\ Len(df) >= 1) =>
        /\ InUnitInterval(metrics.label_diff)
        /\ InUnitInterval(metrics.hist_diff)
        /\ InUnitInterval(metrics.max_spd)
        /\ ~metrics.max_di_dev.nan
        /\ ~metrics.max_di_dev.neg

\* C17: when the reference group is one of the non-missing groups, max_spd
\* is at most label_diff: no group's rate is farther from the reference rate
\* than the largest rate is from the smallest.
C17_ParityWithinSpread ==
    (pc = "supervised" /\ reference_group \in NonMissingGroups(df)) =>
        /\ ~metrics.max_spd.nan
        /\ ~metrics.label_diff.nan
        /\ ~FGreater(metrics.max_spd, metrics.label_diff)

\* a run on three groups in which max_spd is strictly below label_diff
C17_Witness ==
    /\ pc = "supervised"
    /\ reference_group \in NonMissingGroups(df)
    /\ Cardinality(NonMissingGroups(df)) = 3
    /\ FGreater(metrics.max_spd, FZero)
    /\ FLess(metrics.max_spd, metrics.label_diff)

(***************************************************************************)
(* Properties of the bias types of a bundle.                               *)
(***************************************************************************)
\* the labels whose rules fire on a bundle in thousandths, in the fixed order
FiringTypes(b) ==
    (IF b.min_representation < 400 THEN <<"Representation Bias">> ELSE <<>>)
        \o (IF b.label_diff > 200 THEN <<"Label Bias">> ELSE <<>>)
        \o (IF b.historical_diff > 200 THEN <<"Historical Bias">> ELSE <<>>)
        \o (IF b.max_spd > 100 \/ b.max_di_deviation > 200
            THEN <<"Outcome Bias">> ELSE <<>>)

\* C16: detect_bias_types returns a non-empty list in the order Representation
\* Bias, Label Bias, Historical Bias, Outcome Bias, with each label exactly
\* when its rule fires (all thresholds strict); "No Significant Bias Detected"
\* is in the list exactly when no rule fires, and is then its only element.
C16_BiasTypes ==
    bundle_types # NoTypes =>
        /\ Len(bundle_types) >= 1
        /\ bundle_types = IF FiringTypes(bundle) = <<>>
                          THEN <<"No Significant Bias Detected">>
                          ELSE FiringTypes(bundle)

\* label_diff exactly 0.2 and nothing else near a threshold: no rule fires
C16_Witness ==
    /\ bundle.label_diff = 200
    /\ bundle.min_representation = 500
    /\ bundle_types = <<"No Significant Bias Detected">>

\* the elements of a list
Elements(list) == {list[i] : i \in 1..Len(list)}

\* C18: on the same bundle, whenever final_bias_verdict returns "NOT BIASED"
\* detect_bias_types returns only "No Significant Bias Detected"; whenever
\* detect_bias_types reports "Label Bias" or "Historical Bias" the verdict is
\* "BIASED"; whenever it reports "Outcome Bias" the verdict is not "NOT
\* BIASED".
C18_Agreement ==
    (verdict # NoResult /\ bundle_types # NoTypes) =>
        /\ verdict.verdict = "NOT BIASED" =>
               bundle_types = <<"No Significant Bias Detected">>
        /\ ("Label Bias" \in Elements(bundle_types)
                \/ "Historical Bias" \in Elements(bundle_types)) =>
               verdict.verdict = "BIASED"
        /\ "Outcome Bias" \in Elements(bundle_types) => verdict.verdict # "NOT BIASED"

\* C18, amended: whenever final_bias_verdict returns "NOT BIASED"
\* detect_bias_types returns only "No Significant Bias Detected" or only
\* "Representation Bias"; "Label Bias" or "Historical Bias" come with the
\* verdict "BIASED", and "Outcome Bias" never with "NOT BIASED".
C18_AgreementButRepresentation ==
    (verdict # NoResult /\ bundle_types # NoTypes) =>
        /\ verdict.verdict = "NOT BIASED" =>
               bundle_types \in {<<"No Significant Bias Detected">>, <<"Representation Bias">>}
        /\ ("Label Bias" \in Elements(bundle_types)
                \/ "Historical Bias" \in Elements(bundle_types)) =>
               verdict.verdict = "BIASED"
        /\ "Outcome Bias" \in Elements(bundle_types) => verdict.verdict # "NOT BIASED"

\* a bundle that is NOT BIASED and has Representation Bias
C18_Witness ==
    /\ verdict.verdict = "NOT BIASED"
    /\ bundle_types = <<"Representation Bias">>

\* C19: diagnose_bias_and_recommend_fixes and detect_bias_types return the same
\* ordered list of bias types for every bundle, and the keys of the returned
\* fixes are exactly the returned bias types, each with a non-empty list of
\* recommendations.
C19_DiagnosisAgrees ==
    (diagnosis # NoDiagnosis /\ bundle_types # NoTypes) =>
        /\ diagnosis.bias_types = bundle_types
        /\ {diagnosis.fixes[i].key : i \in 1..Len(diagnosis.fixes)}
               = Elements(diagnosis.bias_types)
        /\ \A i, j \in 1..Len(diagnosis.fixes) :
               diagnosis.fixes[i].key = diagnosis.fixes[j].key => i = j
        /\ \A i \in 1..Len(diagnosis.fixes) : Len(diagnosis.fixes[i].value) >= 1

\* a bundle on which the four rules fire
C19_Witness ==
    /\ Len(bundle_types) = 4
    /\ diagnosis.bias_types = bundle_types
    /\ Len(diagnosis.fixes) = 4

\* C20: unsupervised_bias_verdict(min_representation) returns the
\* bias_percentage of final_bias_verdict(min_representation, 0, 0, 0, 0).
C20_UnsupervisedIsRepresentationOnly ==
    (/\ verdict # NoResult
     /\ unsupervised # NoResult
     /\ bundle.label_diff = 0
     /\ bundle.historical_diff = 0
     /\ bundle.max_spd = 0
     /\ bundle.max_di_deviation = 0) =>
        unsupervised.bias_percentage = verdict.bias_percentage

\* min_representation 0.4 alone: 19 percent from both
C20_Witness ==
    /\ bundle = [Unbiased EXCEPT !.min_representation = 400]
    /\ verdict.bias_percentage = 19
    /\ unsupervised.bias_percentage = 19

====
